---- MODULE Spec2Model ----
(***************************************************************************)
(* Model of secretsmanagerLambda.js: the four-step single-user rotation    *)
(* handler (createSecret, setSecret, testSecret, finishSecret) together    *)
(* with the two services it drives: the Secrets Manager store (versions,   *)
(* their SecretString, their staging labels) and the RDS cluster whose     *)
(* master password is rotated.                                             *)
(*                                                                         *)
(* Every service call of the handler may fail (throttling, network): the   *)
(* failure is a nondeterministic branch of the action that makes the call. *)
(* One action is one whole invocation of exports.handler.                  *)
(***************************************************************************)
EXTENDS Integers, FiniteSets, TLC

VARIABLES
    store,       \* the secret's versions: version id -> parsed SecretString
    stages,      \* VersionIdsToStages: version id -> set of staging labels
    dbPassword,  \* the password the RDS cluster currently accepts
    last,        \* the latest handler invocation and how it ended
    tested,      \* tokens whose PENDING credential a testSecret found accepted
    rt,          \* progress of a create -> set -> test -> finish round trip
    race         \* two createSecret invocations for one token, in flight

vars == <<store, stages, dbPassword, last, tested, rt, race>>

----------------------------------------------------------------------------
(* Bounds *)

NumTokens == 2
NumPasswords == 2

----------------------------------------------------------------------------
(* Values *)

V0 == 0
NoVersion == -1

RotationTokens == 1..NumTokens
Tokens == {V0} \cup RotationTokens
Passwords == 1..NumPasswords
Users == {"phat1234", "app"}

AWSCURRENT == "AWSCURRENT"
AWSPENDING == "AWSPENDING"
AWSPREVIOUS == "AWSPREVIOUS"
Labels == {AWSCURRENT, AWSPENDING, AWSPREVIOUS}

SecretString(user, pw) ==
    [username |-> user, host |-> "phat-cluster", port |-> 3306, password |-> pw]

InitialSecret == SecretString("app", 1)

NoStages == [v \in Tokens |-> {}]
EmptyStore == [v \in {} |-> InitialSecret]

NoInvocation ==
    [step |-> "none", token |-> V0, outcome |-> "ok",
     generated |-> FALSE, wrote |-> FALSE, auth |-> "none", retry |-> "none"]

\* retry: "ok" when the invocation before this one was the same step for the
\* same token and ended normally
Invocation(step, token, outcome, generated, wrote) ==
    [step |-> step, token |-> token, outcome |-> outcome,
     generated |-> generated, wrote |-> wrote, auth |-> "none",
     retry |-> IF last.step = step /\ last.token = token /\ last.outcome = "ok"
               THEN "ok" ELSE "none"]

\* a testSecret invocation: auth is what became of the connection attempt
Tested(token, auth) ==
    [Invocation("testSecret", token, "ok", FALSE, FALSE) EXCEPT !.auth = auth]

\* the two concurrent invocations of createSecret
Invocations == {"a", "b"}

NoRace ==
    [token |-> V0,
     pc |-> [p \in Invocations |-> "idle"],
     secret |-> [p \in Invocations |-> InitialSecret],
     wrote |-> {}]

NoRoundTrip == [stage |-> 0, tok |-> V0, v0 |-> V0, p0 |-> InitialSecret]

----------------------------------------------------------------------------
(* The Secrets Manager store, as the handler's calls see it *)

Holders(sg, label) == {v \in Tokens : label \in sg[v]}

\* getSecretValue({SecretId}) returns the version staged AWSCURRENT
HasCurrent == Holders(stages, AWSCURRENT) \cap DOMAIN store # {}
CurrentSecret == store[CHOOSE v \in Holders(stages, AWSCURRENT) \cap DOMAIN store : TRUE]

\* getSecretValue({SecretId, VersionId}) finds a version whatever its labels
HasVersion(token) == token \in DOMAIN store

\* putSecretValue: a new version takes the given labels from whoever has them;
\* the same content under an existing id is ignored, other content is refused.
PutRefused(token, content) == token \in DOMAIN store /\ store[token] # content
PutStore(token, content) ==
    IF token \in DOMAIN store THEN store ELSE store @@ (token :> content)
PutStages(token, content, labels) ==
    IF token \in DOMAIN store THEN stages
    ELSE [v \in Tokens |-> IF v = token THEN labels ELSE stages[v] \ labels]

\* updateSecretVersionStage({VersionStage: AWSCURRENT, MoveToVersionId,
\* RemoveFromVersionId}): the target version must exist; a label attached to
\* another version must be named in RemoveFromVersionId, and that version must
\* hold it. Moving AWSCURRENT drags AWSPREVIOUS onto the version it left.
\* Moving the label onto the version that already holds it is not specified
\* by the service: the action that calls it allows both a refusal and a no-op.
UpdateAccepted(token, from) ==
    /\ token \in DOMAIN store
    /\ IF from = NoVersion
       THEN Holders(stages, AWSCURRENT) \ {token} = {}
       ELSE AWSCURRENT \in stages[from]
UpdateStagesKeepsOld(token, from) ==
    [v \in Tokens |-> IF v = token THEN stages[v] \cup {AWSCURRENT} ELSE stages[v]]
UpdateStagesDragsPrevious(token, from) ==
    [v \in Tokens |->
        IF v = token
        THEN (stages[v] \cup {AWSCURRENT})
                \cup (IF from = token THEN {AWSPREVIOUS} ELSE {})
        ELSE IF v = from
        THEN (stages[v] \ {AWSCURRENT}) \cup {AWSPREVIOUS}
        ELSE IF from = NoVersion THEN stages[v]
        ELSE stages[v] \ {AWSPREVIOUS}]
UpdateStages(token, from) ==
    IF AWSCURRENT \in stages[token] THEN stages
    ELSE [v \in Tokens |->
            IF v = token
            THEN (stages[v] \cup {AWSCURRENT})
                    \ (IF from = NoVersion THEN {} ELSE {AWSPREVIOUS})
            ELSE IF v = from
            THEN (stages[v] \ {AWSCURRENT}) \cup {AWSPREVIOUS}
            ELSE IF from = NoVersion THEN stages[v]
            ELSE stages[v] \ {AWSPREVIOUS}]

\* describeSecret().VersionIdsToStages lists each labelled version with its
\* labels in an order the service does not specify; finishSecret looks only at
\* the first label of each list.
CurretVersionChoices ==
    {v \in Tokens : AWSCURRENT \in stages[v]}
      \cup (IF \A v \in Tokens : AWSCURRENT \in stages[v] => stages[v] # {AWSCURRENT}
            THEN {NoVersion} ELSE {})

\* The RDS cluster authenticates the secret's user with the master password
Accepts(secret) == secret.password = dbPassword

----------------------------------------------------------------------------
(* Initial states: a secret without a value yet, or a secret whose single  *)
(* version is AWSCURRENT and is the credential the database accepts.       *)

Init ==
    /\ \/ /\ store = EmptyStore
          /\ stages = NoStages
       \/ \E user \in Users :
          /\ store = (V0 :> [InitialSecret EXCEPT !.username = user])
          /\ stages = [v \in Tokens |-> IF v = V0 THEN {AWSCURRENT} ELSE {}]
    /\ dbPassword = InitialSecret.password
    /\ last = NoInvocation
    /\ tested = {}
    /\ rt = NoRoundTrip
    /\ race = NoRace

----------------------------------------------------------------------------
(* createSecret *)

RandomSecretFixedUser(pw) ==
    [CurrentSecret EXCEPT !.password = pw, !.username = "phat1234"]
RandomSecret(pw) == [CurrentSecret EXCEPT !.password = pw]

\* a round trip starts when createSecret writes a new version into a store
\* that has one AWSCURRENT version and no AWSPENDING version
StartRoundTrip(token) ==
    IF /\ token \notin DOMAIN store
       /\ Holders(stages, AWSPENDING) = {}
       /\ Cardinality(Holders(stages, AWSCURRENT)) = 1
    THEN [stage |-> 1, tok |-> token,
          v0 |-> CHOOSE v \in Holders(stages, AWSCURRENT) : TRUE,
          p0 |-> CurrentSecret]
    ELSE NoRoundTrip

\* getSecretValue (no AWSCURRENT version, or a failed call), describeSecret or
\* getRandomPassword throws: the invocation fails, nothing is written
createSecretThrows(token) ==
    /\ last' = Invocation("createSecret", token, "error", FALSE, FALSE)
    /\ rt' = NoRoundTrip
    /\ UNCHANGED <<store, stages, dbPassword, tested, race>>

\* the version lookup succeeds: nothing to do
createSecretFound(token) ==
    /\ HasCurrent
    /\ HasVersion(token)
    /\ last' = Invocation("createSecret", token, "ok", FALSE, FALSE)
    /\ rt' = NoRoundTrip
    /\ UNCHANGED <<store, stages, dbPassword, tested, race>>

\* the version lookup throws (no such version, or a failed call), a password
\* is generated, and putSecretValue throws (refused, or a failed call): the
\* error is logged and the invocation ends normally
createSecretPutFailsUnguarded(token) ==
    /\ last' = Invocation("createSecret", token, "ok", TRUE, FALSE)
    /\ rt' = NoRoundTrip
    /\ UNCHANGED <<store, stages, dbPassword, tested, race>>
createSecretPutFails(token) ==
    /\ HasCurrent
    /\ last' = Invocation("createSecret", token, "ok", TRUE, FALSE)
    /\ rt' = NoRoundTrip
    /\ UNCHANGED <<store, stages, dbPassword, tested, race>>

\* the version lookup throws, a password is generated, putSecretValue returns
createSecretPutOverwrites(token) ==
    /\ HasCurrent
    /\ \E pw \in Passwords :
        /\ store' = [v \in DOMAIN store \cup {token} |->
                        IF v = token THEN RandomSecret(pw) ELSE store[v]]
        /\ stages' = [v \in Tokens |-> IF v = token THEN {AWSPENDING}
                                       ELSE stages[v] \ {AWSPENDING}]
    /\ last' = Invocation("createSecret", token, "ok", TRUE, TRUE)
    /\ rt' = NoRoundTrip
    /\ UNCHANGED <<dbPassword, tested, race>>
createSecretPut(token) ==
    /\ HasCurrent
    /\ \E pw \in Passwords :
        /\ ~PutRefused(token, RandomSecret(pw))
        /\ store' = PutStore(token, RandomSecret(pw))
        /\ stages' = PutStages(token, RandomSecret(pw), {AWSPENDING})
    /\ last' = Invocation("createSecret", token, "ok", TRUE, token \notin DOMAIN store)
    /\ rt' = StartRoundTrip(token)
    /\ UNCHANGED <<dbPassword, tested, race>>

createSecret(token) ==
    \/ createSecretThrows(token)
    \/ createSecretFound(token)
    \/ createSecretPutFails(token)
    \/ createSecretPut(token)

----------------------------------------------------------------------------
(* setSecret *)

Advance(token, from) ==
    IF rt.stage = from /\ rt.tok = token THEN [rt EXCEPT !.stage = from + 1]
    ELSE NoRoundTrip

\* getSecretValue for the token throws (no such version, or a failed call)
setSecretThrows(token) ==
    /\ last' = Invocation("setSecret", token, "error", FALSE, FALSE)
    /\ rt' = NoRoundTrip
    /\ UNCHANGED <<store, stages, dbPassword, tested, race>>

\* modifyDBCluster sets the master password; the connection that follows is
\* created and dropped, whatever its fate
setSecretModifiedPromotes(token) ==
    /\ HasVersion(token)
    /\ dbPassword' = store[token].password
    /\ stages' = [v \in Tokens |-> IF v = token THEN {AWSCURRENT}
                                   ELSE stages[v] \ {AWSCURRENT}]
    /\ last' = Invocation("setSecret", token, "ok", FALSE, FALSE)
    /\ rt' = NoRoundTrip
    /\ UNCHANGED <<store, tested, race>>
setSecretModified(token) ==
    /\ HasVersion(token)
    /\ dbPassword' = store[token].password
    /\ last' = Invocation("setSecret", token, "ok", FALSE, FALSE)
    /\ rt' = Advance(token, 1)
    /\ UNCHANGED <<store, stages, tested, race>>

\* modifyDBCluster throws: the error is logged and the invocation ends normally
setSecretModifyFails(token) ==
    /\ HasVersion(token)
    /\ last' = Invocation("setSecret", token, "ok", FALSE, FALSE)
    /\ rt' = NoRoundTrip
    /\ UNCHANGED <<store, stages, dbPassword, tested, race>>

setSecret(token) ==
    \/ setSecretThrows(token)
    \/ setSecretModified(token)
    \/ setSecretModifyFails(token)

----------------------------------------------------------------------------
(* testSecret and getConnection *)

\* getSecretValue for the token throws: the error is logged, the invocation
\* ends normally
testSecretLookupFails(token) ==
    /\ last' = Invocation("testSecret", token, "ok", FALSE, FALSE)
    /\ rt' = NoRoundTrip
    /\ UNCHANGED <<store, stages, dbPassword, tested, race>>

\* getConnection is started and not awaited; it resolves to a connection when
\* the database accepts the credential. record: keep the token in tested.
testSecretAccepted(token, record) ==
    /\ HasVersion(token)
    /\ Accepts(store[token])
    /\ tested' = IF record THEN tested \cup {token} ELSE tested
    /\ last' = Tested(token, "accepted")
    /\ rt' = Advance(token, 2)
    /\ UNCHANGED <<store, stages, dbPassword, race>>

\* getConnection resolves to null (credential rejected, or database out of
\* reach); nobody looks at the result
testSecretRejected(token) ==
    /\ HasVersion(token)
    /\ last' = Tested(token, "rejected")
    /\ rt' = NoRoundTrip
    /\ UNCHANGED <<store, stages, dbPassword, tested, race>>

testSecretModifies(token, record) ==
    /\ HasVersion(token)
    /\ dbPassword' = store[token].password
    /\ tested' = IF record THEN tested \cup {token} ELSE tested
    /\ last' = Invocation("testSecret", token, "ok", FALSE, FALSE)
    /\ rt' = NoRoundTrip
    /\ UNCHANGED <<store, stages, race>>
testSecret(token, record) ==
    \/ testSecretLookupFails(token)
    \/ testSecretAccepted(token, record)
    \/ testSecretRejected(token)

----------------------------------------------------------------------------
(* finishSecret *)

\* the first describeSecret or updateSecretVersionStage throws (no such
\* version, a label that must be removed from elsewhere, or a failed call)
finishSecretThrows(token) ==
    /\ last' = Invocation("finishSecret", token, "error", FALSE, FALSE)
    /\ rt' = NoRoundTrip
    /\ UNCHANGED <<store, stages, dbPassword, tested, race>>

\* updateSecretVersionStage returns; the closing describeSecret returns
finishSecretMovedSetsPassword(token) ==
    /\ \E curretVersion \in CurretVersionChoices :
        /\ UpdateAccepted(token, curretVersion)
        /\ stages' = UpdateStages(token, curretVersion)
    /\ dbPassword' = store[token].password
    /\ last' = Invocation("finishSecret", token, "ok", FALSE, FALSE)
    /\ rt' = NoRoundTrip
    /\ UNCHANGED <<store, tested, race>>
finishSecretMoved(token) ==
    /\ \E curretVersion \in CurretVersionChoices :
        /\ UpdateAccepted(token, curretVersion)
        /\ stages' = UpdateStages(token, curretVersion)
    /\ last' = Invocation("finishSecret", token, "ok", FALSE, FALSE)
    /\ rt' = Advance(token, 3)
    /\ UNCHANGED <<store, dbPassword, tested, race>>

\* updateSecretVersionStage returns; the closing describeSecret throws
finishSecretMovedThrows(token) ==
    /\ \E curretVersion \in CurretVersionChoices :
        /\ UpdateAccepted(token, curretVersion)
        /\ stages' = UpdateStages(token, curretVersion)
    /\ last' = Invocation("finishSecret", token, "error", FALSE, FALSE)
    /\ rt' = NoRoundTrip
    /\ UNCHANGED <<store, dbPassword, tested, race>>

finishSecret(token) ==
    \/ finishSecretThrows(token)
    \/ finishSecretMoved(token)
    \/ finishSecretMovedThrows(token)

----------------------------------------------------------------------------
(* handler *)

\* a Step that is none of the four falls through the switch
otherStepThrows(token) ==
    /\ last' = Invocation("other", token, "error", FALSE, FALSE)
    /\ rt' = NoRoundTrip
    /\ UNCHANGED <<store, stages, dbPassword, tested, race>>
otherStep(token) ==
    /\ last' = Invocation("other", token, "ok", FALSE, FALSE)
    /\ rt' = NoRoundTrip
    /\ UNCHANGED <<store, stages, dbPassword, tested, race>>

\* record: whether the history variable tested is kept
handler(record) ==
    \E token \in Tokens :
        \/ createSecret(token)
        \/ setSecret(token)
        \/ testSecret(token, record)
        \/ finishSecret(token)
        \/ otherStep(token)

Next == handler(FALSE)

Spec == Init /\ [][Next]_vars

\* the same program, with the history of accepted tests recorded
NextOrdering == handler(TRUE)

SpecOrdering == Init /\ [][NextOrdering]_vars

----------------------------------------------------------------------------
(* Two createSecret invocations for the same token, call by call *)

RaceToken == race.token

Moved(p, pc) == [race EXCEPT !.pc[p] = pc]

\* line 67: the AWSCURRENT secret is read and parsed
raceGetCurrent(p) ==
    /\ race.pc[p] = "start"
    /\ HasCurrent
    /\ race' = [race EXCEPT !.pc[p] = "lookup", !.secret[p] = CurrentSecret]
    /\ UNCHANGED <<store, stages, dbPassword, last, tested, rt>>

\* lines 67, 75, 86: getSecretValue, describeSecret or getRandomPassword throws
raceThrows(p) ==
    /\ race.pc[p] \in {"start", "lookup", "generate"}
    /\ race' = Moved(p, "failed")
    /\ UNCHANGED <<store, stages, dbPassword, last, tested, rt>>

\* lines 79-84: the version of the token is there
raceFound(p) ==
    /\ race.pc[p] = "lookup"
    /\ HasVersion(RaceToken)
    /\ race' = Moved(p, "done")
    /\ UNCHANGED <<store, stages, dbPassword, last, tested, rt>>

\* line 85: the lookup throws (no such version, or a failed call)
raceNotFound(p) ==
    /\ race.pc[p] = "lookup"
    /\ race' = Moved(p, "generate")
    /\ UNCHANGED <<store, stages, dbPassword, last, tested, rt>>

\* lines 86-90: the generated password replaces the one read
raceGenerate(p) ==
    /\ race.pc[p] = "generate"
    /\ \E pw \in Passwords :
        race' = [race EXCEPT !.pc[p] = "put", !.secret[p].password = pw]
    /\ UNCHANGED <<store, stages, dbPassword, last, tested, rt>>

racePutOverwrites(p) ==
    /\ race.pc[p] = "put"
    /\ store' = [v \in DOMAIN store \cup {RaceToken} |->
                    IF v = RaceToken THEN race.secret[p] ELSE store[v]]
    /\ stages' = [v \in Tokens |-> IF v = RaceToken THEN {AWSPENDING}
                                   ELSE stages[v] \ {AWSPENDING}]
    /\ race' = [race EXCEPT !.pc[p] = "done", !.wrote = @ \cup {p}]
    /\ UNCHANGED <<dbPassword, last, tested, rt>>
\* lines 95-100: putSecretValue returns
racePut(p) ==
    /\ race.pc[p] = "put"
    /\ ~PutRefused(RaceToken, race.secret[p])
    /\ store' = PutStore(RaceToken, race.secret[p])
    /\ stages' = PutStages(RaceToken, race.secret[p], {AWSPENDING})
    /\ race' = [race EXCEPT !.pc[p] = "done",
                            !.wrote = IF HasVersion(RaceToken) THEN @ ELSE @ \cup {p}]
    /\ UNCHANGED <<dbPassword, last, tested, rt>>

\* lines 101-103: putSecretValue throws (refused, or a failed call), logged
racePutFails(p) ==
    /\ race.pc[p] = "put"
    /\ race' = Moved(p, "done")
    /\ UNCHANGED <<store, stages, dbPassword, last, tested, rt>>

\* the secret has its AWSCURRENT version, and possibly the AWSPENDING version
\* of an earlier rotation; both invocations are about to start
InitRace ==
    /\ \E user \in Users, token \in RotationTokens :
        /\ race = [NoRace EXCEPT !.token = token,
                                 !.pc = [p \in Invocations |-> "start"]]
        /\ \/ /\ store = (V0 :> [InitialSecret EXCEPT !.username = user])
              /\ stages = [v \in Tokens |-> IF v = V0 THEN {AWSCURRENT} ELSE {}]
           \/ \E other \in RotationTokens \ {token}, pw \in Passwords :
              /\ store = (V0 :> [InitialSecret EXCEPT !.username = user])
                            @@ (other :> SecretString(user, pw))
              /\ stages = [v \in Tokens |-> IF v = V0 THEN {AWSCURRENT}
                                            ELSE IF v = other THEN {AWSPENDING}
                                            ELSE {}]
    /\ dbPassword = InitialSecret.password
    /\ last = NoInvocation
    /\ tested = {}
    /\ rt = NoRoundTrip

NextRace ==
    \E p \in Invocations :
        \/ raceGetCurrent(p)
        \/ raceThrows(p)
        \/ raceFound(p)
        \/ raceNotFound(p)
        \/ raceGenerate(p)
        \/ racePut(p)
        \/ racePutFails(p)

SpecRace == InitRace /\ [][NextRace]_vars

----------------------------------------------------------------------------
(* Properties *)

SameButPassword(a, b) == [a EXCEPT !.password = b.password] = b

\* C1: from a store with one AWSCURRENT version, every reachable state has
\* exactly one version holding AWSCURRENT: never none, never two.
C1_OneCurrent ==
    DOMAIN store # {} => Cardinality(Holders(stages, AWSCURRENT)) = 1

\* finishSecret has moved AWSCURRENT onto a rotation token
C1_Witness ==
    /\ last.step = "finishSecret"
    /\ last.outcome = "ok"
    /\ last.token # V0
    /\ Holders(stages, AWSCURRENT) = {last.token}
    /\ AWSPREVIOUS \in stages[V0]

\* C2: testSecret ends in an error whenever the database rejects the password
\* of the AWSPENDING version it was asked to test.
C2_TestReportsRejection ==
    ( /\ last.step = "testSecret"
      /\ last.auth = "rejected"
      /\ AWSPENDING \in stages[last.token]
      /\ ~Accepts(store[last.token]) )
    => last.outcome = "error"

\* C3: finishSecret for a token no testSecret has found accepted ends in an
\* error and leaves AWSCURRENT where it was. (A token that already holds
\* AWSCURRENT is left out: the service does not specify its answer there.)
C3_FinishNeedsTest ==
    [][ ( /\ last'.step = "finishSecret"
          /\ last'.token \notin tested
          /\ AWSCURRENT \notin stages[last'.token] )
        => ( /\ last'.outcome = "error"
             /\ Holders(stages', AWSCURRENT) = Holders(stages, AWSCURRENT) ) ]_vars

\* C4: createSecret for a token other than the one holding AWSPENDING is
\* refused: versions and labels stay as they were, so the holder keeps
\* AWSPENDING and no version appears for the other token.
C4_CreateConflictRejected ==
    [][ \A t1 \in Tokens :
          ( /\ AWSPENDING \in stages[t1]
            /\ last'.step = "createSecret"
            /\ last'.token # t1 )
          => ( /\ store' = store
               /\ stages' = stages
               /\ AWSPENDING \in stages'[t1] ) ]_vars

\* C5: createSecret invoked right after a createSecret that wrote the version
\* of the same token leaves that version AWSPENDING with the same content,
\* generates no password and writes nothing.
C5_CreateTwice ==
    [][ ( /\ last.step = "createSecret"
          /\ last.wrote
          /\ last'.step = "createSecret"
          /\ last'.token = last.token )
        => ( /\ HasVersion(last.token)
             /\ store' = store
             /\ stages' = stages
             /\ AWSPENDING \in stages'[last.token]
             /\ ~last'.generated
             /\ ~last'.wrote ) ]_vars

\* C6: after create, set, test, finish for a new token, run in that order with
\* every call succeeding from a store with AWSCURRENT version v0 and no
\* AWSPENDING version, the token holds AWSCURRENT, its content is that of v0
\* except for the password, and v0 holds AWSPREVIOUS.
C6_RoundTrip ==
    rt.stage = 4 =>
        /\ Holders(stages, AWSCURRENT) = {rt.tok}
        /\ SameButPassword(store[rt.tok], rt.p0)
        /\ AWSPREVIOUS \in stages[rt.v0]

\* a round trip that ended with a password other than the one it started from
C6_Witness ==
    /\ rt.stage = 4
    /\ last.step = "finishSecret"
    /\ store[rt.tok].password # rt.p0.password
    /\ dbPassword = store[rt.tok].password

\* C7: a finishSecret that ends normally, from a state where the token holds
\* AWSPENDING and another version holds AWSCURRENT, leaves the token the only
\* AWSCURRENT version and no version AWSPENDING.
C7_FinishClearsPending ==
    [][ ( /\ AWSPENDING \in stages[last'.token]
          /\ Holders(stages, AWSCURRENT) \ {last'.token} # {}
          /\ last'.step = "finishSecret"
          /\ last'.outcome = "ok" )
        => ( /\ Holders(stages', AWSCURRENT) = {last'.token}
             /\ Holders(stages', AWSPENDING) = {} ) ]_vars

\* C8: finishSecret ends in an error and leaves the labels as they were when
\* no version holds AWSCURRENT or the token has no AWSPENDING version. (A
\* token that already holds AWSCURRENT is left out, as in C3.)
C8_FinishNeedsPending ==
    [][ ( /\ last'.step = "finishSecret"
          /\ AWSCURRENT \notin stages[last'.token]
          /\ \/ Holders(stages, AWSCURRENT) = {}
             \/ ~HasVersion(last'.token)
             \/ AWSPENDING \notin stages[last'.token] )
        => ( /\ last'.outcome = "error"
             /\ stages' = stages ) ]_vars

\* C9: when setSecret ends normally for an AWSPENDING version, the database
\* accepts that version's password.
C9_SetMeansAccepted ==
    ( /\ last.step = "setSecret"
      /\ last.outcome = "ok"
      /\ HasVersion(last.token)
      /\ AWSPENDING \in stages[last.token] )
    => Accepts(store[last.token])

\* C10: testSecret leaves the versions, their content, their labels and the
\* database password as they were, whatever the token and the verdict.
C10_TestChangesNothing ==
    [][ last'.step = "testSecret"
        => ( /\ store' = store
             /\ stages' = stages
             /\ dbPassword' = dbPassword ) ]_vars

\* testSecret has run on a version whose password the database rejects
C10_Witness ==
    /\ last.step = "testSecret"
    /\ last.auth = "rejected"
    /\ AWSPENDING \in stages[last.token]
    /\ ~Accepts(store[last.token])

\* C11: a version, once written, keeps its content in every later state,
\* also when createSecret runs again for its token after a failed lookup.
C11_ContentNeverChanges ==
    [][ \A v \in DOMAIN store : v \in DOMAIN store' /\ store'[v] = store[v] ]_vars

\* createSecret has generated a password for a token whose version exists,
\* and the version is still there
C11_Witness ==
    /\ last.step = "createSecret"
    /\ last.generated
    /\ ~last.wrote
    /\ HasVersion(last.token)
    /\ Cardinality(DOMAIN store) > 1

\* C12: createSecret on a store without an AWSCURRENT version ends in an
\* error, creates no version and moves no label.
C12_CreateNeedsCurrent ==
    [][ ( /\ last'.step = "createSecret"
          /\ Holders(stages, AWSCURRENT) = {} )
        => ( /\ last'.outcome = "error"
             /\ store' = store
             /\ stages' = stages ) ]_vars

\* createSecret has been refused on a store without an AWSCURRENT version
C12_Witness ==
    /\ last.step = "createSecret"
    /\ last.outcome = "error"
    /\ Holders(stages, AWSCURRENT) = {}
    /\ store = EmptyStore

\* C13: setSecret or testSecret for a token without an AWSPENDING version ends
\* in an error and leaves the versions, the labels and the database password
\* as they were.
C13_SetTestNeedPending ==
    [][ ( /\ last'.step \in {"setSecret", "testSecret"}
          /\ ~(HasVersion(last'.token) /\ AWSPENDING \in stages[last'.token]) )
        => ( /\ last'.outcome = "error"
             /\ store' = store
             /\ stages' = stages
             /\ dbPassword' = dbPassword ) ]_vars

\* C14: a request whose step is none of the four ends normally and changes
\* neither the store nor the database password.
C14_OtherStepNoOp ==
    [][ last'.step = "other"
        => ( /\ last'.outcome = "ok"
             /\ store' = store
             /\ stages' = stages
             /\ dbPassword' = dbPassword ) ]_vars

\* an unknown step has been handled while a rotation was in flight
C14_Witness ==
    /\ last.step = "other"
    /\ last.outcome = "ok"
    /\ Holders(stages, AWSPENDING) # {}

C16_RaceWritesOnce ==
    /\ Cardinality(race.wrote) <= 1
    /\ \A p \in race.wrote :
        /\ HasVersion(RaceToken)
        /\ store[RaceToken] = race.secret[p]
        /\ AWSPENDING \in stages[RaceToken]
    /\ race.wrote = {} => ~HasVersion(RaceToken)

\* both invocations missed the version, generated different passwords and
\* called putSecretValue; one of them wrote
C16_Witness ==
    /\ \A p \in Invocations : race.pc[p] = "done"
    /\ \E p, q \in Invocations :
        /\ race.secret[p].password # race.secret[q].password
        /\ race.wrote = {p}
        /\ store[RaceToken] = race.secret[p]
        /\ store[RaceToken] # race.secret[q]

\* C17: finishSecret changes neither the database password nor the content
\* of any version.
C17_FinishOnlyMovesLabels ==
    [][ last'.step = "finishSecret"
        => ( /\ dbPassword' = dbPassword
             /\ store' = store ) ]_vars

\* finishSecret has promoted a version whose password the database does not
\* have, and the database still has its own
C17_Witness ==
    /\ last.step = "finishSecret"
    /\ last.outcome = "ok"
    /\ last.retry = "none"
    /\ AWSCURRENT \in stages[last.token]
    /\ ~Accepts(store[last.token])

\* C18: in every state each version holds at most one label and each label is
\* on at most one version; after finishSecret the token does not hold both
\* AWSCURRENT and AWSPENDING.
C18_LabelsExclusive ==
    /\ \A v \in Tokens : Cardinality(stages[v]) <= 1
    /\ \A l \in Labels : Cardinality(Holders(stages, l)) <= 1

\* C19: setSecret invoked again for a token right after it ended normally with
\* the database accepting the token's password leaves the database password
\* as it was; and no setSecret changes the versions or their labels.
C19_SetIdempotent ==
    [][ /\ last'.step = "setSecret" => (store' = store /\ stages' = stages)
        /\ ( /\ last.step = "setSecret"
             /\ last.outcome = "ok"
             /\ HasVersion(last.token)
             /\ Accepts(store[last.token])
             /\ last'.step = "setSecret"
             /\ last'.token = last.token )
           => dbPassword' = dbPassword ]_vars

\* setSecret has run a second time for an AWSPENDING version whose password
\* is not the one the rotation started from
C19_Witness ==
    /\ last.step = "setSecret"
    /\ last.retry = "ok"
    /\ last.outcome = "ok"
    /\ AWSPENDING \in stages[last.token]
    /\ Accepts(store[last.token])
    /\ dbPassword # InitialSecret.password

====
